---- MODULE Spec2Model ----
(***************************************************************************)
(* AutoCleanX: the column inference, analysis, cleaning and feature        *)
(* synthesis engine of services/dataProcessor.ts (processData), modelled   *)
(* as a state machine: the parser delivers the rows, then processData      *)
(* handles one header per step and finally assembles the report.  The App  *)
(* component of App.tsx starts it on an upload and shows its outcome.      *)
(***************************************************************************)
EXTENDS Integers, Sequences, FiniteSets, TLC

VARIABLES
    file,               \* what the parser will deliver for the uploaded file
    tz,                 \* the time zone of the environment (local date getters)
    pc,                 \* position of processData: parsing, loop, done, error
    error,              \* message of the Error processData rejected with
    rawData,            \* rows delivered by parseCSV
    headers,            \* Object.keys(rawData[0])
    cleanedData,        \* the working copy of the rows
    idx,                \* position of the for-of loop over headers
    seenValues,         \* per processed header: `values` as read at line 77
    columnAnalyses,
    cleaningActions,
    featureEngineering,
    report,             \* <<>> until processData returns, then <<report>>
    aliased,            \* rows of cleanedData that are the very objects of rawData
    appState,           \* App: the view shown
    appReport,          \* App: report, <<>> for null
    appCleanedData,     \* App: cleanedData
    appError            \* App: error, <<>> for null

\* the state of the App component
appVars == <<appState, appReport, appCleanedData, appError>>

vars == <<file, tz, pc, error, rawData, headers, cleanedData, idx, seenValues,
          columnAnalyses, cleaningActions, featureEngineering, report, aliased,
          appVars>>

----------------------------------------------------------------------------
(* Bounds of the model *)

\* rows of a single-column dataset whose cells are drawn in every order
MaxRows == 3
\* rows of a two-column dataset
MaxPairRows == 2
\* cells in the runs of a tall single-column dataset
MaxTall == 12

----------------------------------------------------------------------------
(* Cell values: TableRow = Record<string, string | number | null | undefined> *)

Num(n)    == [t |-> "number", n |-> n, d |-> 1, s |-> ""]
Str(s)    == [t |-> "string", n |-> 0, d |-> 1, s |-> s]
Null      == [t |-> "null", n |-> 0, d |-> 1, s |-> ""]
Undefined == [t |-> "undefined", n |-> 0, d |-> 1, s |-> ""]
\* the number NaN (denominator 0)
NaN       == [t |-> "number", n |-> 0, d |-> 0, s |-> ""]

RECURSIVE Gcd(_, _)
Gcd(a, b) == IF b = 0 THEN a ELSE Gcd(b, a % b)

Abs(n) == IF n < 0 THEN -n ELSE n

\* the number n/d (d > 0), in lowest terms; x/0 is NaN for x = 0
Rat(n, d) ==
    IF d = 0 THEN NaN
    ELSE LET g == Gcd(Abs(n), d)
         IN  [t |-> "number", n |-> n \div g, d |-> d \div g, s |-> ""]

isNaN(v) == v.t = "number" /\ v.d = 0

\* v === null || v === undefined || v === ''
IsMissing(v) == v = Null \/ v = Undefined \/ v = Str("")

\* row[header]: undefined when the row has no such key
Get(row, h) == IF h \in DOMAIN row THEN row[h] ELSE Undefined

\* row[h] = v
Put(row, h, v) == [k \in (DOMAIN row) \cup {h} |-> IF k = h THEN v ELSE row[k]]

\* JSON.parse(JSON.stringify(row)): keys holding undefined are dropped, NaN
\* becomes null
CloneRow(row) ==
    LET keep == {k \in DOMAIN row : row[k] # Undefined}
    IN  [k \in keep |-> IF isNaN(row[k]) THEN Null ELSE row[k]]

\* a copy of the array that keeps the row objects: [...rows]
CloneRows_Shallow(rows) == [data |-> rows, aliased |-> 1..Len(rows)]

\* JSON.parse(JSON.stringify(rows)): every row is a new object
CloneRows(rows) ==
    [data |-> [r \in 1..Len(rows) |-> CloneRow(rows[r])], aliased |-> {}]

\* what the rows of raw hold once data was written: a row that is the same
\* object as its working copy shows every write
WriteThrough(raw, data, same) ==
    [r \in 1..Len(raw) |-> IF r \in same THEN data[r] ELSE raw[r]]

----------------------------------------------------------------------------
(* The strings of the model and what the JavaScript built-ins make of them *)

\* v.trim()
Trim(s) == IF s = " " THEN "" ELSE s

\* strings Number(s) converts to a number other than NaN
NumericStrings == {"", " ", "2021"}

\* Number(s) for a string
NumberOfString(s) ==
    CASE s = "2021" -> Num(2021)
      [] s \in {"", " "} -> Num(0)
      [] OTHER -> NaN

\* Number(v)
ToNumber(v) ==
    CASE v.t = "number"    -> v
      [] v.t = "null"      -> Num(0)
      [] v.t = "undefined" -> NaN
      [] v.t = "string"    -> NumberOfString(v.s)

\* the UTC calendar date Date.parse(s) denotes, for the strings it accepts
\* (date-only ISO forms are read as UTC midnight)
UtcDate(s) ==
    CASE s = "2021"       -> [y |-> 2021, m |-> 1, d |-> 1]
      [] s = "2021-05-01" -> [y |-> 2021, m |-> 5, d |-> 1]
      [] s = "2020-01-02" -> [y |-> 2020, m |-> 1, d |-> 2]

DateStrings == {"2021", "2021-05-01", "2020-01-02"}

\* !isNaN(Date.parse(s))
DateParses(s) == s \in DateStrings

\* the calendar day before a date (months of the model's dates only)
DayBefore(dt) ==
    IF dt.d > 1 THEN [dt EXCEPT !.d = dt.d - 1]
    ELSE IF dt.m = 1 THEN [y |-> dt.y - 1, m |-> 12, d |-> 31]
    ELSE IF dt.m = 5 THEN [dt EXCEPT !.m = 4, !.d = 30]
    ELSE [dt EXCEPT !.m = dt.m - 1, !.d = 28]

\* getFullYear / getMonth()+1 / getDate of new Date(s): local time, so west
\* of Greenwich UTC midnight is still the evening of the day before
LocalDate(s, zone) == IF zone = "west" THEN DayBefore(UtcDate(s)) ELSE UtcDate(s)

\* text.split(/\s+/).filter(Boolean).length
WordCount(s) ==
    CASE s \in {"", " "} -> 0
      [] s = "x y" -> 2
      [] OTHER -> 1

\* String(v) for a number or string v
StringOf(v) == IF v.t = "string" THEN v.s ELSE ToString(v.n)

\* v is falsy: null, undefined, '', 0, NaN
Falsy(v) == IsMissing(v) \/ (v.t = "number" /\ v.n = 0)

\* canonical array-index keys come first, ascending, in Object.keys
IsIndexKey(s) == s = "2021"
IndexOfKey(s) == IF s = "2021" THEN 2021 ELSE 0

----------------------------------------------------------------------------
(* Sequence helpers: Array.prototype.map / filter / every / reduce *)

Range(sq) == {sq[i] : i \in 1..Len(sq)}

\* number of positions of sq holding a value of S
CountIn(sq, S) == Cardinality({i \in 1..Len(sq) : sq[i] \in S})


RECURSIVE SumN(_)
\* reduce((a, b) => a + b, 0) over integers
SumN(sq) == IF sq = <<>> THEN 0 ELSE Head(sq) + SumN(Tail(sq))

RECURSIVE Insert(_, _)
Insert(x, sorted) ==
    IF sorted = <<>> THEN <<x>>
    ELSE IF x <= Head(sorted) THEN <<x>> \o sorted
    ELSE <<Head(sorted)>> \o Insert(x, Tail(sorted))

RECURSIVE SortAsc(_)
\* sort((a, b) => a - b)
SortAsc(sq) == IF sq = <<>> THEN <<>> ELSE Insert(Head(sq), SortAsc(Tail(sq)))

RECURSIVE Dedup(_)
\* the distinct elements of sq in first-appearance order
Dedup(sq) ==
    IF sq = <<>> THEN <<>>
    ELSE LET front == Dedup(SubSeq(sq, 1, Len(sq) - 1))
             last  == sq[Len(sq)]
         IN  IF last \in Range(front) THEN front ELSE Append(front, last)

----------------------------------------------------------------------------
(* inferColumnType, dataProcessor.ts lines 34-52 *)

NUMERIC     == "Numeric"
CATEGORICAL == "Categorical"
DATE        == "Date"
TEXT        == "Text"
UNKNOWN     == "Unknown"

\* values.filter(v => v !== null && v !== undefined && v !== '')
NonNull(values) == SelectSeq(values, LAMBDA v : ~IsMissing(v))

\* typeof v === 'number' || (typeof v === 'string' && !isNaN(Number(v)) && v.trim() !== '')
LooksNumeric(v) ==
    \/ v.t = "number"
    \/ v.t = "string" /\ ~isNaN(ToNumber(v)) /\ Trim(v.s) # ""

\* typeof v === 'string' && !isNaN(Date.parse(v))
LooksDate(v) == v.t = "string" /\ DateParses(v.s)

\* the threshold with <= for <: a ratio of exactly 0.5 passes
LooksCategorical_AtMostHalf(nonNullValues) ==
    /\ 2 * Cardinality(Range(nonNullValues)) <= Len(nonNullValues)
    /\ Len(nonNullValues) > 10

\* uniqueRatio < 0.5 && nonNullValues.length > 10, uniqueRatio being
\* new Set(nonNullValues).size / nonNullValues.length
LooksCategorical(nonNullValues) ==
    /\ 2 * Cardinality(Range(nonNullValues)) < Len(nonNullValues)
    /\ Len(nonNullValues) > 10

\* the checks with the date check moved before the numeric check
inferColumnType_DateFirst(values) ==
    LET nonNullValues == NonNull(values)
    IN  IF Len(nonNullValues) = 0 THEN UNKNOWN
        ELSE IF \A i \in 1..Len(nonNullValues) : LooksDate(nonNullValues[i])
             THEN DATE
        ELSE IF \A i \in 1..Len(nonNullValues) : LooksNumeric(nonNullValues[i])
             THEN NUMERIC
        ELSE IF LooksCategorical(nonNullValues) THEN CATEGORICAL
        ELSE TEXT

\* the date test with some for every: one parseable value makes a DATE column
inferColumnType_AnyDate(values) ==
    LET nonNullValues == NonNull(values)
    IN  IF Len(nonNullValues) = 0 THEN UNKNOWN
        ELSE IF \A i \in 1..Len(nonNullValues) : LooksNumeric(nonNullValues[i])
             THEN NUMERIC
        ELSE IF \E i \in 1..Len(nonNullValues) : LooksDate(nonNullValues[i])
             THEN DATE
        ELSE IF LooksCategorical(nonNullValues) THEN CATEGORICAL
        ELSE TEXT

inferColumnType(values) ==
    LET nonNullValues == NonNull(values)
    IN  IF Len(nonNullValues) = 0 THEN UNKNOWN
        ELSE IF \A i \in 1..Len(nonNullValues) : LooksNumeric(nonNullValues[i])
             THEN NUMERIC
        ELSE IF \A i \in 1..Len(nonNullValues) : LooksDate(nonNullValues[i])
             THEN DATE
        ELSE IF LooksCategorical(nonNullValues) THEN CATEGORICAL
        ELSE TEXT

----------------------------------------------------------------------------
(* Column analysis, dataProcessor.ts lines 77-129 *)

\* cleanedData.map(row => row[header])
ColumnValues(data, header) == [r \in 1..Len(data) |-> Get(data[r], header)]

\* values.map(v => Number(v)).filter(v => !isNaN(v))
NumericValues(values) ==
    SelectSeq([i \in 1..Len(values) |-> ToNumber(values[i])], LAMBDA v : ~isNaN(v))

\* values.filter(v => typeof v === 'string' && v.trim() !== '')
StringValues(values) ==
    SelectSeq(values, LAMBDA v : v.t = "string" /\ Trim(v.s) # "")

\* values.filter(v => v === null || v === undefined || v === '').length
MissingCount(values) == Len(SelectSeq(values, IsMissing))

NoStats ==
    [mean |-> Undefined, median |-> Undefined, min |-> Undefined, max |-> Undefined,
     mode |-> Undefined, uniqueValues |-> Undefined]

\* sum / numericValues.length || 0
Mean(numericValues) ==
    LET sum  == SumN([i \in 1..Len(numericValues) |-> numericValues[i].n])
        mean == Rat(sum, Len(numericValues))
    IN  IF isNaN(mean) \/ mean.n = 0 THEN Num(0) ELSE mean

\* the element of a sorted array at 0-based position k (undefined outside it)
At(sorted, k) == IF k + 1 \in 1..Len(sorted) THEN Num(sorted[k + 1]) ELSE Undefined

Median(sorted) ==
    LET n == Len(sorted)
    IN  IF n = 0 THEN NaN
        ELSE IF n % 2 = 0
             THEN Rat(sorted[n \div 2] + sorted[n \div 2 + 1], 2)
             ELSE Num(sorted[n \div 2 + 1])

NumericStats(numericValues) ==
    LET sorted == SortAsc([i \in 1..Len(numericValues) |-> numericValues[i].n])
    IN  [NoStats EXCEPT !.mean = Mean(numericValues),
                        !.median = Median(sorted),
                        !.min = At(sorted, 0),
                        !.max = At(sorted, Len(sorted) - 1)]

\* counts[v] after stringValues.forEach(v => counts[v] = (counts[v] || 0) + 1)
Counts(stringValues, key) == CountIn(stringValues, {Str(key)})

\* Object.keys(counts): the index-like keys ascending, then the other keys in
\* the order they were first set
ObjectKeys(stringValues) ==
    LET firsts  == Dedup([i \in 1..Len(stringValues) |-> stringValues[i].s])
        indexes == SelectSeq(firsts, IsIndexKey)
        sorted  == SortAsc([i \in 1..Len(indexes) |-> IndexOfKey(indexes[i])])
        others  == SelectSeq(firsts, LAMBDA k : ~IsIndexKey(k))
    IN  [i \in 1..Len(sorted) |-> ToString(sorted[i])] \o others

\* the reducer with the comparison turned around: an equal count keeps a
Pick_KeepsFirst(stringValues, a, b) ==
    IF a # "" /\ Counts(stringValues, a) >= Counts(stringValues, b) THEN a ELSE b

\* (a, b) => counts[a] > counts[b] ? a : b; counts[''] is undefined, and
\* undefined > n is false
Pick(stringValues, a, b) ==
    IF a # "" /\ Counts(stringValues, a) > Counts(stringValues, b) THEN a ELSE b

RECURSIVE Reduce(_, _, _)
\* keys.reduce(Pick, acc)
Reduce(stringValues, keys, acc) ==
    IF keys = <<>> THEN acc
    ELSE Reduce(stringValues, Tail(keys), Pick(stringValues, acc, Head(keys)))

Mode(stringValues) == Reduce(stringValues, ObjectKeys(stringValues), "")

UniqueValues(stringValues) == Num(Cardinality(Range(stringValues)))

ModeStats(stringValues) ==
    [NoStats EXCEPT !.mode = Str(Mode(stringValues)),
                    !.uniqueValues = UniqueValues(stringValues)]

Stats(type, values) ==
    CASE type = NUMERIC -> NumericStats(NumericValues(values))
      [] type \in {CATEGORICAL, DATE} -> ModeStats(StringValues(values))
      [] type = TEXT -> [NoStats EXCEPT !.uniqueValues = UniqueValues(StringValues(values))]
      [] OTHER -> NoStats

Analysis(header, values) ==
    LET type == inferColumnType(values)
    IN  [name |-> header, type |-> type, missingCount |-> MissingCount(values),
         stats |-> Stats(type, values)]

----------------------------------------------------------------------------
(* Cleaning, dataProcessor.ts lines 101-126 *)

\* the rows with a missing cell are dropped instead of filled
Impute_DropsMissing(data, header, fill) ==
    SelectSeq(data, LAMBDA row : ~IsMissing(Get(row, header)))

\* cleanedData.forEach(row => { if (missing(row[header])) row[header] = fill })
Impute(data, header, fill) ==
    [r \in 1..Len(data) |->
        IF IsMissing(Get(data[r], header)) THEN Put(data[r], header, fill) ELSE data[r]]

\* the statistic the missing cells of a column of this type are filled with
FillValue(analysis) ==
    IF analysis.type = NUMERIC THEN analysis.stats.mean ELSE analysis.stats.mode

\* the guard without the test of the type
Imputes_AnyType(analysis) == analysis.missingCount > 0

\* the column is imputed: lines 92, 102, 111, 119
Imputes(analysis) ==
    /\ analysis.type \in {NUMERIC, CATEGORICAL, DATE}
    /\ analysis.missingCount > 0

\* mean.toFixed(2), in hundredths, rounded half up
ToFixed2(v) == (2 * 100 * v.n + v.d) \div (2 * v.d)

CleaningActionFor(analysis) ==
    [column |-> analysis.name, action |-> "Filled missing values",
     details |-> IF analysis.type = NUMERIC
                 THEN [used |-> "mean", hundredths |-> ToFixed2(analysis.stats.mean), text |-> ""]
                 ELSE [used |-> "mode", hundredths |-> 0, text |-> analysis.stats.mode.s]]

Clean(data, analysis) ==
    IF Imputes(analysis) THEN Impute(data, analysis.name, FillValue(analysis)) ELSE data

----------------------------------------------------------------------------
(* Feature engineering, dataProcessor.ts lines 133-155 *)

DateCols(header) == <<header \o "_year", header \o "_month", header \o "_day">>
TextCols(header) == <<header \o "_length", header \o "_word_count">>

\* new Date(v) is a valid date: strings as Date.parse, null and numbers as an
\* epoch offset, undefined not
ValidDate(v) ==
    \/ v.t = "string" /\ DateParses(v.s)
    \/ v.t = "null"
    \/ v.t = "number" /\ ~isNaN(v)

\* the local calendar date of new Date(v); small epoch offsets are 1 Jan 1970 UTC
LocalDateOf(v, zone) ==
    IF v.t = "string" THEN LocalDate(v.s, zone)
    ELSE IF zone = "west" THEN [y |-> 1969, m |-> 12, d |-> 31]
    ELSE [y |-> 1970, m |-> 1, d |-> 1]

DateRow(row, header, zone) ==
    LET v == Get(row, header)
        newCols == DateCols(header)
        date == LocalDateOf(v, zone)
    IN  IF ValidDate(v)
        THEN Put(Put(Put(row, newCols[1], Num(date.y)), newCols[2], Num(date.m)),
                 newCols[3], Num(date.d))
        ELSE row

\* String(row[header] || '')
TextOf(v) == IF Falsy(v) THEN "" ELSE StringOf(v)

TextRow(row, header) ==
    LET text == TextOf(Get(row, header))
        newCols == TextCols(header)
    IN  Put(Put(row, newCols[1], Num(Len(text))), newCols[2], Num(WordCount(text)))

\* the rows after the feature engineering of one column
Synthesize(data, header, type, zone) ==
    CASE type = DATE -> [r \in 1..Len(data) |-> DateRow(data[r], header, zone)]
      [] type = TEXT -> [r \in 1..Len(data) |-> TextRow(data[r], header)]
      [] OTHER -> data

\* the log with a NUMERIC column logged as well
FeatureInfo_AlsoNumeric(header, type) ==
    CASE type \in {DATE, NUMERIC} ->
            <<[sourceColumn |-> header, newColumns |-> DateCols(header),
               description |-> "Extracted date parts"]>>
      [] type = TEXT -> <<[sourceColumn |-> header, newColumns |-> TextCols(header),
                           description |-> "Calculated text metrics"]>>
      [] OTHER -> <<>>

\* the FeatureEngineeringInfo entries one column appends
FeatureInfo(header, type) ==
    CASE type = DATE -> <<[sourceColumn |-> header, newColumns |-> DateCols(header),
                           description |-> "Extracted date parts"]>>
      [] type = TEXT -> <<[sourceColumn |-> header, newColumns |-> TextCols(header),
                           description |-> "Calculated text metrics"]>>
      [] OTHER -> <<>>

\* the feature engineering run on the rows as read, the imputation after it
ColumnStep_SynthesizeFirst(data, analysis, zone) ==
    Clean(Synthesize(data, analysis.name, analysis.type, zone), analysis)

\* the rows after one column: imputed (lines 101-126), then feature
\* engineering on the imputed rows (lines 133-155)
ColumnStep(data, analysis, zone) ==
    Synthesize(Clean(data, analysis), analysis.name, analysis.type, zone)

----------------------------------------------------------------------------
(* The inputs: what the parser delivers *)

\* what a parse delivers: the rows and the key order of each row object
Parsed(rows, hs) == [ok |-> TRUE, rows |-> rows, keys |-> hs]

\* a file the parser reports errors for
Malformed == [ok |-> FALSE, rows |-> <<>>, keys |-> <<>>]

\* the cells of a single-column dataset drawn in every order
Cells ==
    {Undefined, Null, Str(""), Num(0), Num(1), Num(2), Str("x"), Str(" "),
     Str("2021"), Str("2021-05-01"), Str("2020-01-02")}

\* a dataset of n rows with the single column "a"
SoloFile(cells) == Parsed([r \in 1..Len(cells) |-> [h \in {"a"} |-> cells[r]]], <<"a">>)

\* two-column datasets: column "a" beside an unrelated column, and before or
\* after a column named like one of the features synthesized from it
PairLists ==
    {<<"a", "b">>, <<"a", "a_length">>, <<"a_length", "a">>,
     <<"a", "a_year">>, <<"a_year", "a">>}

\* the cells of column "a" of a two-column dataset, and of the column beside it
PairCells == {Null, Num(1), Str("x"), Str("x y"), Str("2021-05-01")}
SideCells == {Null, Num(5), Str("x")}

PairRows(hs) ==
    {[h \in Range(hs) |-> IF h = "a" THEN c[1] ELSE c[2]] : c \in PairCells \X SideCells}

\* tall single-column datasets: runs of three strings, then at most one each
\* of four more cells
RunCells    == <<Str(" "), Str("x"), Str("y")>>
SingleCells == <<Null, Num(1), Str("2021"), Str("2021-05-01")>>

Repeat(v, k) == [i \in 1..k |-> v]

TallColumn(k1, k2, k3, singles) ==
    Repeat(RunCells[1], k1) \o Repeat(RunCells[2], k2) \o Repeat(RunCells[3], k3)
        \o SelectSeq(SingleCells, LAMBDA v : v \in singles)

Zones == {"utc", "west"}

\* the headers are the keys of the first row, each holding a parsed value
InitSolo ==
    /\ \E n \in 0..MaxRows : \E cells \in [1..n -> Cells] :
            /\ n > 0 => cells[1] # Undefined
            /\ file = SoloFile(cells)
    /\ tz \in Zones

InitPair ==
    /\ \E hs \in PairLists : \E n \in 1..MaxPairRows :
            \E rows \in [1..n -> PairRows(hs)] : file = Parsed(rows, hs)
    /\ tz = "utc"

InitTall ==
    /\ \E k1 \in 0..MaxTall, k2 \in 0..MaxTall, k3 \in 0..MaxTall :
            /\ k1 + k2 + k3 <= MaxTall
            /\ \E singles \in SUBSET Range(SingleCells) :
                    file = SoloFile(TallColumn(k1, k2, k3, singles))
    /\ tz = "utc"

----------------------------------------------------------------------------
(* processData, dataProcessor.ts lines 60-173 *)

EmptyError == "CSV file is empty or contains only headers."
ParseError == "CSV Parsing Error"

READY_TO_UPLOAD == "READY_TO_UPLOAD"
PROCESSING      == "PROCESSING"
REPORT_READY    == "REPORT_READY"
ERROR           == "ERROR"

Init ==
    /\ \/ InitSolo
       \/ InitPair
       \/ InitTall
       \/ file = Malformed /\ tz = "utc"
    /\ pc = "parsing"
    /\ error = ""
    /\ rawData = <<>>
    /\ headers = <<>>
    /\ cleanedData = <<>>
    /\ idx = 0
    /\ seenValues = <<>>
    /\ columnAnalyses = <<>>
    /\ cleaningActions = <<>>
    /\ featureEngineering = <<>>
    /\ report = <<>>
    /\ aliased = {}
    /\ appState = PROCESSING
    /\ appReport = <<>>
    /\ appCleanedData = <<>>
    /\ appError = <<>>

\* parseCSV rejects: lines 16-17 and 23; processData rethrows at line 62
ParseReject ==
    /\ pc = "parsing"
    /\ ~file.ok
    /\ pc' = "error"
    /\ error' = ParseError
    /\ UNCHANGED <<file, tz, rawData, headers, cleanedData, idx, seenValues,
                   columnAnalyses, cleaningActions, featureEngineering, report,
                   aliased, appVars>>

\* the test for the empty dataset left out
IsEmpty_Never(rows) == FALSE

\* rawData.length === 0
IsEmpty(rows) == Len(rows) = 0

\* parseCSV resolves: lines 62-73
ParseResolve ==
    /\ pc = "parsing"
    /\ file.ok
    /\ rawData' = file.rows
    /\ IF IsEmpty(file.rows)
       THEN /\ pc' = "error"
            /\ error' = EmptyError
            /\ UNCHANGED <<headers, cleanedData, idx, aliased>>
       ELSE /\ pc' = "loop"
            /\ headers' = file.keys
            /\ cleanedData' = CloneRows(file.rows).data
            /\ aliased' = CloneRows(file.rows).aliased
            /\ idx' = 1
            /\ UNCHANGED error
    /\ UNCHANGED <<file, tz, seenValues, columnAnalyses, cleaningActions,
                   featureEngineering, report, appVars>>

\* one iteration of the loop over headers: lines 76-156
ProcessColumn ==
    /\ pc = "loop"
    /\ idx <= Len(headers)
    /\ LET header   == headers[idx]
           values   == ColumnValues(cleanedData, header)
           analysis == Analysis(header, values)
       IN  /\ seenValues' = Append(seenValues, values)
           /\ columnAnalyses' = Append(columnAnalyses, analysis)
           /\ cleaningActions' =
                IF Imputes(analysis)
                THEN Append(cleaningActions, CleaningActionFor(analysis))
                ELSE cleaningActions
           /\ cleanedData' = ColumnStep(cleanedData, analysis, tz)
           /\ featureEngineering' = featureEngineering \o FeatureInfo(header, analysis.type)
    /\ rawData' = WriteThrough(rawData, cleanedData', aliased)
    /\ idx' = idx + 1
    /\ UNCHANGED <<file, tz, pc, error, headers, report, aliased, appVars>>

\* Object.keys(row).length
KeyCount(row) == Cardinality(DOMAIN row)

\* the report without the analyses of the UNKNOWN columns
Report_WithoutUnknown ==
    [initialRows |-> Len(rawData),
     cleanedRows |-> Len(cleanedData),
     initialCols |-> Len(headers),
     cleanedCols |-> KeyCount(cleanedData[1]),
     columnAnalyses |-> SelectSeq(columnAnalyses, LAMBDA an : an.type # UNKNOWN),
     cleaningActions |-> cleaningActions,
     featureEngineering |-> featureEngineering]

\* the report: lines 160-170 (file name and elapsed time left out)
Report ==
    [initialRows |-> Len(rawData),
     cleanedRows |-> Len(cleanedData),
     initialCols |-> Len(headers),
     cleanedCols |-> KeyCount(cleanedData[1]),
     columnAnalyses |-> columnAnalyses,
     cleaningActions |-> cleaningActions,
     featureEngineering |-> featureEngineering]

\* the loop is over: lines 158-172
Finish ==
    /\ pc = "loop"
    /\ idx > Len(headers)
    /\ report' = <<Report>>
    /\ pc' = "done"
    /\ UNCHANGED <<file, tz, error, rawData, headers, cleanedData, idx, seenValues,
                   columnAnalyses, cleaningActions, featureEngineering, aliased,
                   appVars>>

Next == ParseReject \/ ParseResolve \/ ProcessColumn \/ Finish

Spec == Init /\ [][Next]_vars

----------------------------------------------------------------------------
(* The App component, App.tsx lines 13-80: it starts processData on an      *)
(* upload, shows its outcome, and is reset from either end view.           *)

MaxUploadRows == 2

UploadCells == {Null, Num(1), Str("x"), Str("x y"), Str("2021-05-01")}

\* the files a user uploads: one the parser reports errors for, and
\* single-column datasets of 0..MaxUploadRows rows
UploadFiles ==
    {Malformed} \cup
    {SoloFile(cells) : cells \in UNION {[1..n -> UploadCells] : n \in 0..MaxUploadRows}}

\* no call of processData is running: its frame holds nothing
NoCall(p, f, e, raw, hs, data, i, seen, analyses, actions, features, rep, same) ==
    /\ p = "idle"
    /\ f = Malformed
    /\ e = ""
    /\ raw = <<>> /\ hs = <<>> /\ data = <<>> /\ i = 0
    /\ seen = <<>> /\ analyses = <<>> /\ actions = <<>> /\ features = <<>>
    /\ rep = <<>> /\ same = {}

\* the component is mounted: the initial values of the four useState hooks
InitApp ==
    /\ appState = READY_TO_UPLOAD
    /\ appReport = <<>>
    /\ appCleanedData = <<>>
    /\ appError = <<>>
    /\ tz = "utc"
    /\ NoCall(pc, file, error, rawData, headers, cleanedData, idx, seenValues,
              columnAnalyses, cleaningActions, featureEngineering, report, aliased)

\* handleFileUpload up to its await: lines 27-31; FileUpload is rendered in
\* the READY_TO_UPLOAD view only (line 78)
HandleFileUpload ==
    /\ appState = READY_TO_UPLOAD
    /\ pc = "idle"
    /\ \E f \in UploadFiles : file' = f
    /\ appState' = PROCESSING
    /\ appError' = <<>>
    /\ pc' = "parsing"
    /\ UNCHANGED <<tz, error, rawData, headers, cleanedData, idx, seenValues,
                   columnAnalyses, cleaningActions, featureEngineering, report,
                   aliased, appReport, appCleanedData>>

\* the message shown whatever was thrown
ErrorMessage_Unknown(isError, message) ==
    "An unknown error occurred during processing."

\* err instanceof Error ? err.message : 'An unknown error ...' (line 37)
ErrorMessage(isError, message) ==
    IF isError THEN message ELSE "An unknown error occurred during processing."

\* the error view without its state: the failure leads back to the upload view
UploadRejected_BackToUpload ==
    /\ pc = "error"
    /\ appError' = <<ErrorMessage(TRUE, error)>>
    /\ appState' = READY_TO_UPLOAD
    /\ NoCall(pc', file', error', rawData', headers', cleanedData', idx',
              seenValues', columnAnalyses', cleaningActions', featureEngineering',
              report', aliased')
    /\ UNCHANGED <<tz, appReport, appCleanedData>>

\* the await of line 31 resolves: lines 32-34
UploadResolved ==
    /\ pc = "done"
    /\ appReport' = report
    /\ appCleanedData' = cleanedData
    /\ appState' = REPORT_READY
    /\ NoCall(pc', file', error', rawData', headers', cleanedData', idx',
              seenValues', columnAnalyses', cleaningActions', featureEngineering',
              report', aliased')
    /\ UNCHANGED <<tz, appError>>

\* the await of line 31 throws: lines 35-40; what processData throws is an
\* Error in every case (lines 17, 23, 64)
UploadRejected ==
    /\ pc = "error"
    /\ appError' = <<ErrorMessage(TRUE, error)>>
    /\ appState' = ERROR
    /\ NoCall(pc', file', error', rawData', headers', cleanedData', idx',
              seenValues', columnAnalyses', cleaningActions', featureEngineering',
              report', aliased')
    /\ UNCHANGED <<tz, appReport, appCleanedData>>

\* a reset that leaves the report and the cleaned rows in place
HandleReset_KeepsReport ==
    /\ appState \in {REPORT_READY, ERROR}
    /\ appState' = READY_TO_UPLOAD
    /\ appError' = <<>>
    /\ UNCHANGED <<file, tz, pc, error, rawData, headers, cleanedData, idx,
                   seenValues, columnAnalyses, cleaningActions, featureEngineering,
                   report, aliased, appReport, appCleanedData>>

\* handleReset: lines 46-51; its buttons are in the REPORT_READY and ERROR
\* views only (lines 62, 69)
HandleReset ==
    /\ appState \in {REPORT_READY, ERROR}
    /\ appState' = READY_TO_UPLOAD
    /\ appReport' = <<>>
    /\ appCleanedData' = <<>>
    /\ appError' = <<>>
    /\ UNCHANGED <<file, tz, pc, error, rawData, headers, cleanedData, idx,
                   seenValues, columnAnalyses, cleaningActions, featureEngineering,
                   report, aliased>>

AppNext ==
    \/ HandleFileUpload
    \/ ParseReject
    \/ ParseResolve
    \/ ProcessColumn
    \/ Finish
    \/ UploadResolved
    \/ UploadRejected
    \/ HandleReset

\* the parser calls back, the loop of processData runs on and the awaiting
\* handler is resumed; the user is free never to upload or reset
AppSpec ==
    /\ InitApp
    /\ [][AppNext]_vars
    /\ WF_vars(ParseReject \/ ParseResolve)
    /\ WF_vars(ProcessColumn)
    /\ WF_vars(Finish)
    /\ WF_vars(UploadResolved)
    /\ WF_vars(UploadRejected)


----------------------------------------------------------------------------
(* Properties *)

\* the columns processed so far
Processed == 1..Len(columnAnalyses)

Returned == pc = "done"

\* the column of a header in the rows the parser delivered
RawColumn(h) == [r \in 1..Len(rawData) |-> Get(rawData[r], h)]

\* the sum of a sequence of integral cells
SumOf(cells) == SumN([k \in 1..Len(cells) |-> ToNumber(cells[k]).n])

\* C1: for every NUMERIC column with at least one missing cell, the reported
\* mean is the sum of the non-missing values divided by their number.
C1_MeanOfPresentValues ==
    \A i \in Processed :
        LET an      == columnAnalyses[i]
            present == NonNull(seenValues[i])
        IN  an.type = NUMERIC /\ an.missingCount > 0 =>
                an.stats.mean = Rat(SumOf(present), Len(present))

\* the sum of newColumns.length over the feature engineering log
RECURSIVE NewColumnCount(_)
NewColumnCount(infos) ==
    IF infos = <<>> THEN 0 ELSE Len(Head(infos).newColumns) + NewColumnCount(Tail(infos))

\* C2: when processData returns, cleanedCols = initialCols + the sum of
\* newColumns.length over report.featureEngineering.
C2_ColumnCountAddsUp ==
    Returned =>
        report[1].cleanedCols =
            report[1].initialCols + NewColumnCount(report[1].featureEngineering)

\* the strings among cells, by the given test on the string
StringsWhere(cells, Test(_)) == SelectSeq(cells, LAMBDA v : v.t = "string" /\ Test(v.s))

\* the distinct strings of cells in first-appearance order
FirstAppearance(cells) == Dedup([k \in 1..Len(cells) |-> cells[k].s])

\* keys[j] has the highest count in cells and every other key with that count
\* stands on the side of it that Before(k, j) names
IsModeAt(cells, keys, j, Before(_, _)) ==
    \A k \in 1..Len(keys) :
        /\ Counts(cells, keys[k]) <= Counts(cells, keys[j])
        /\ k # j /\ Counts(cells, keys[k]) = Counts(cells, keys[j]) => Before(j, k)

C4_MissingCountOfRawInput ==
    \A i \in Processed :
        columnAnalyses[i].missingCount =
            Len(SelectSeq(RawColumn(headers[i]), IsMissing))

\* C5: a cell of an original column differs between the raw input and the
\* returned cleanedData only if it was missing and the column was inferred
\* NUMERIC, CATEGORICAL or DATE.
C5_OnlyMissingCellsChange ==
    Returned =>
        \A i \in 1..Len(headers) : \A r \in 1..Len(rawData) :
            Get(cleanedData[r], headers[i]) # Get(rawData[r], headers[i]) =>
                /\ IsMissing(Get(rawData[r], headers[i]))
                /\ columnAnalyses[i].type \in {NUMERIC, CATEGORICAL, DATE}

\* C6: in the returned cleanedData every cell of an imputed column that was
\* missing in the input holds the mean (NUMERIC) or mode (CATEGORICAL, DATE)
\* recorded in the column's ColumnAnalysis.
C6_MissingCellsHoldStatistic ==
    Returned =>
        \A i \in 1..Len(headers) : \A r \in 1..Len(rawData) :
            LET an == columnAnalyses[i]
            IN  /\ an.type \in {NUMERIC, CATEGORICAL, DATE}
                /\ an.missingCount > 0
                /\ IsMissing(Get(rawData[r], headers[i]))
                => Get(cleanedData[r], headers[i]) =
                        (IF an.type = NUMERIC THEN an.stats.mean ELSE an.stats.mode)

\* how many entries of a log name the column under the given field
Entries(log, Column(_), name) == Cardinality({k \in 1..Len(log) : Column(log[k]) = name})

ProcessedNames == {columnAnalyses[i].name : i \in Processed}

\* C7: a column appears in cleaningActions, and then exactly once, if and
\* only if its missingCount is above 0 and its type is NUMERIC, CATEGORICAL or
\* DATE; TEXT and UNKNOWN columns never appear.
C7_CleaningActionIff ==
    /\ \A i \in Processed :
        LET an == columnAnalyses[i]
        IN  Entries(cleaningActions, LAMBDA e : e.column, an.name) =
                (IF an.missingCount > 0 /\ an.type \in {NUMERIC, CATEGORICAL, DATE}
                 THEN 1 ELSE 0)
    /\ \A k \in 1..Len(cleaningActions) : cleaningActions[k].column \in ProcessedNames

\* a run came back that imputed one column and left a TEXT column with
\* missing cells alone
C7_ImputedAndSkipped ==
    /\ Returned
    /\ Len(cleaningActions) = 1
    /\ \E i \in Processed :
        columnAnalyses[i].type = TEXT /\ columnAnalyses[i].missingCount > 0

\* C8: a column is the sourceColumn of a FeatureEngineeringInfo, and then of
\* exactly one, if and only if its type is DATE or TEXT; the other columns add
\* no key to any row (every key of a row is a header or a logged new column).
C8_FeatureInfoIff ==
    /\ \A i \in Processed :
        LET an == columnAnalyses[i]
        IN  Entries(featureEngineering, LAMBDA e : e.sourceColumn, an.name) =
                (IF an.type \in {DATE, TEXT} THEN 1 ELSE 0)
    /\ \A k \in 1..Len(featureEngineering) :
        featureEngineering[k].sourceColumn \in ProcessedNames
    /\ \A r \in 1..Len(cleanedData) :
        DOMAIN cleanedData[r] \subseteq
            Range(headers) \cup
            UNION {Range(featureEngineering[k].newColumns) : k \in 1..Len(featureEngineering)}

\* a run came back with one column that synthesized features and one of
\* another type that did not
C8_OneSourceOfTwo ==
    /\ Returned
    /\ Len(columnAnalyses) = 2
    /\ Len(featureEngineering) = 1
    /\ \E i \in Processed : columnAnalyses[i].type \in {NUMERIC, UNKNOWN}

\* the cells that are neither null, absent nor the empty string
Present(cells) == {cells[k] : k \in {k \in 1..Len(cells) :
                        cells[k].t \in {"number", "string"} /\ cells[k] # Str("")}}

\* a number, or a non-blank string convertible to a number
QualifiesNumeric(v) ==
    v.t = "number" \/ (v.t = "string" /\ v.s \in NumericStrings \ {"", " "})

\* a string parseable as a date
QualifiesDate(v) == v.t = "string" /\ v.s \in DateStrings

\* C9: inferColumnType returns UNKNOWN exactly when no non-missing value
\* remains, otherwise NUMERIC exactly when every non-missing value is a number
\* or a non-blank numeric string, otherwise DATE exactly when every
\* non-missing value is a date string; numeric wins over date.
C9_InferenceOrder ==
    \A i \in Processed :
        LET type    == columnAnalyses[i].type
            present == Present(seenValues[i])
            allNumeric == \A v \in present : QualifiesNumeric(v)
            allDate    == \A v \in present : QualifiesDate(v)
        IN  /\ type = UNKNOWN <=> present = {}
            /\ type = NUMERIC <=> present # {} /\ allNumeric
            /\ type = DATE <=> present # {} /\ ~allNumeric /\ allDate

\* a column whose values all qualify as numeric and as dates was typed
C9_YearsSeen ==
    \E i \in Processed :
        /\ Present(seenValues[i]) = {Str("2021")}
        /\ columnAnalyses[i].type = NUMERIC

\* C10: a column that is neither UNKNOWN, NUMERIC nor DATE is CATEGORICAL
\* exactly when distinct / non-missing < 0.5 and non-missing > 10, and TEXT
\* otherwise.
C10_CategoricalThreshold ==
    \A i \in Processed :
        LET type     == columnAnalyses[i].type
            count    == Len(seenValues[i]) - Len(SelectSeq(seenValues[i], IsMissing))
            distinct == Cardinality(Present(seenValues[i]))
        IN  type \notin {UNKNOWN, NUMERIC, DATE} =>
                /\ type = CATEGORICAL <=> 2 * distinct < count /\ count > 10
                /\ type # CATEGORICAL => type = TEXT

\* a column of more than 10 non-missing values, exactly half of them
\* distinct, was typed TEXT
C10_ExactlyHalfSeen ==
    \E i \in Processed :
        /\ Len(NonNull(seenValues[i])) > 10
        /\ 2 * Cardinality(Present(seenValues[i])) = Len(NonNull(seenValues[i]))
        /\ columnAnalyses[i].type = TEXT

\* one non-missing value of the column parses as a date and another
\* non-missing string does not
MixedDates(cells) ==
    /\ \E v \in Present(cells) : QualifiesDate(v)
    /\ \E v \in Present(cells) : v.t = "string" /\ ~QualifiesDate(v)

\* the feature engineering entries logged for a column
InfoOf(name) ==
    SelectSeq(featureEngineering, LAMBDA info : info.sourceColumn = name)

\* C11 as stated: a column in which one non-missing value parses as a date
\* and another non-missing string does not is processed as a DATE column, with
\* one FeatureEngineeringInfo of its year, month and day columns.
C11_MixedColumnIsDate ==
    \A i \in Processed :
        MixedDates(seenValues[i]) =>
            /\ columnAnalyses[i].type = DATE
            /\ \E k \in 1..Len(featureEngineering) :
                    /\ featureEngineering[k].sourceColumn = columnAnalyses[i].name
                    /\ featureEngineering[k].newColumns = DateCols(columnAnalyses[i].name)

\* C11 amended: such a column is never a DATE column.  It is TEXT, or
\* CATEGORICAL when it has more than 10 non-missing values of which fewer than
\* half are distinct; no date parts are logged for it, and as a TEXT column
\* its one FeatureEngineeringInfo names its length and word count columns.
C11_MixedColumnIsNotDate ==
    \A i \in Processed :
        LET an == columnAnalyses[i]
        IN  MixedDates(seenValues[i]) =>
                /\ an.type \in {TEXT, CATEGORICAL}
                /\ an.type = CATEGORICAL <=> LooksCategorical(NonNull(seenValues[i]))
                /\ \A k \in 1..Len(featureEngineering) :
                        featureEngineering[k].sourceColumn = an.name =>
                            /\ an.type = TEXT
                            /\ featureEngineering[k].newColumns = TextCols(an.name)

\* the column ["2021-05-01", "x"] was processed and came out as TEXT
C11_MixedSeen ==
    /\ Returned
    /\ \E i \in Processed :
            /\ seenValues[i] = <<Str("2021-05-01"), Str("x")>>
            /\ columnAnalyses[i].type = TEXT
            /\ Len(InfoOf(columnAnalyses[i].name)) = 1

\* the cell of row r in a processed column once its missing cells are filled
Imputed(i, r) ==
    IF IsMissing(seenValues[i][r]) THEN FillValue(columnAnalyses[i])
    ELSE seenValues[i][r]

\* C12: imputation comes before feature synthesis.  For every DATE column,
\* each row's year, month and day are the calendar parts of the value read
\* from the cell, or of the column's mode where the cell was missing; the
\* month is in 1..12.
C12_DatePartsOfImputedCell ==
    \A i \in Processed :
        LET an == columnAnalyses[i]
        IN  an.type = DATE =>
                \A r \in 1..Len(cleanedData) :
                    LET cell == Imputed(i, r)
                        date == LocalDate(cell.s, tz)
                        row  == cleanedData[r]
                    IN  /\ cell.t = "string" /\ DateParses(cell.s)
                        /\ Get(row, DateCols(an.name)[1]) = Num(date.y)
                        /\ Get(row, DateCols(an.name)[2]) = Num(date.m)
                        /\ Get(row, DateCols(an.name)[3]) = Num(date.d)
                        /\ date.m \in 1..12

\* a DATE column with a missing cell was processed, and that row carries the
\* year of the mode
C12_MissingDateSeen ==
    /\ Returned
    /\ \E i \in Processed : \E r \in 1..Len(cleanedData) :
            /\ columnAnalyses[i].type = DATE
            /\ seenValues[i][r] = Null
            /\ columnAnalyses[i].stats.mode = Str("2021-05-01")
            /\ Get(cleanedData[r], DateCols(columnAnalyses[i].name)[1]) = Num(2021)

\* the value of a cell rendered as a string, a missing cell as the empty string
Rendered(v) == IF IsMissing(v) THEN "" ELSE StringOf(v)

\* C13: for every TEXT column, every row carries the column's length field,
\* the number of characters of the cell rendered as a string (a missing cell
\* as the empty string), and its word count field, the number of
\* whitespace-delimited non-empty tokens of that string.
C13_TextMetricsOfCell ==
    \A i \in Processed :
        LET an == columnAnalyses[i]
        IN  an.type = TEXT =>
                \A r \in 1..Len(cleanedData) :
                    LET text == Rendered(seenValues[i][r])
                        row  == cleanedData[r]
                    IN  /\ Get(row, TextCols(an.name)[1]) = Num(Len(text))
                        /\ Get(row, TextCols(an.name)[2]) = Num(WordCount(text))

\* the analysis a second run makes of a column of the returned rows
Reanalysis(h) == Analysis(h, ColumnValues(cleanedData, h))

\* C14: re-running the imputation on the rows a run returned is a no-op: for
\* every column of the returned rows the imputation changes no cell and
\* emits no CleaningAction.
C14_RerunIsNoOp ==
    Returned =>
        \A h \in DOMAIN cleanedData[1] :
            /\ ~Imputes(Reanalysis(h))
            /\ Clean(cleanedData, Reanalysis(h)) = cleanedData

\* the loop over the headers is running or over
Copied == pc \in {"loop", "done"}

\* C15: the parsed rows are never mutated: while the columns are processed
\* and at return, rawData is what the parser delivered, and no row of
\* cleanedData is the same object as a row of rawData.
C15_RawDataUntouched ==
    Copied => rawData = file.rows /\ aliased = {}

\* a run returned with a cell of cleanedData imputed and the raw cell still null
C15_ImputedBesideRaw ==
    /\ Returned
    /\ \E r \in 1..Len(rawData) : \E h \in DOMAIN rawData[r] :
            /\ rawData[r][h] = Null
            /\ Get(cleanedData[r], h) \notin {Null, Undefined}

\* the names of a sequence of analyses
Names(analyses) == [i \in 1..Len(analyses) |-> analyses[i].name]

\* C16: the report holds exactly one ColumnAnalysis for each original header,
\* the keys of the first parsed row, in header order and none for a
\* synthesized column, whatever the column's type or missing count; while the
\* loop runs the analyses are those of the headers handled so far.
C16_OneAnalysisPerHeader ==
    /\ Copied => Names(columnAnalyses) = SubSeq(file.keys, 1, idx - 1)
    /\ Returned => Names(report[1].columnAnalyses) = file.keys

\* a run returned with synthesized columns beside two original headers, one of
\* them a column that is not imputed although it has missing cells
C16_SynthesizedBesideHeaders ==
    /\ Returned
    /\ Len(file.keys) = 2
    /\ Len(report[1].columnAnalyses) = 2
    /\ report[1].cleanedCols > 2
    /\ \E i \in 1..2 :
            /\ report[1].columnAnalyses[i].type \in {TEXT, UNKNOWN}
            /\ report[1].columnAnalyses[i].missingCount > 0

\* C17: for an input with at least one data row, cleanedData has as many
\* rows as the parser delivered from the copy to the return, and the report's
\* cleanedRows equals its initialRows.
C17_RowCountPreserved ==
    /\ Copied => Len(cleanedData) = Len(file.rows) /\ Len(file.rows) >= 1
    /\ Returned =>
            /\ report[1].cleanedRows = report[1].initialRows
            /\ report[1].initialRows = Len(file.rows)

\* a run over three rows returned after an imputation and a feature synthesis
C17_ThreeRowsCleaned ==
    /\ Returned
    /\ report[1].initialRows = 3
    /\ Len(report[1].cleaningActions) > 0
    /\ Len(report[1].featureEngineering) > 0

\* C18: when the parser delivers zero data rows, processData fails with the
\* empty-dataset error, which is not the parser's error, before any header is
\* read or any ColumnAnalysis computed, and returns no report and no
\* cleanedData.
C18_EmptyDatasetError ==
    file.ok /\ Len(file.rows) = 0 /\ pc # "parsing" =>
        /\ pc = "error"
        /\ error = "CSV file is empty or contains only headers."
        /\ error # ParseError
        /\ headers = <<>> /\ idx = 0
        /\ seenValues = <<>> /\ columnAnalyses = <<>>
        /\ report = <<>> /\ cleanedData = <<>>

\* processData failed on a parse of zero rows
C18_EmptyParseSeen ==
    /\ pc = "error"
    /\ file.ok
    /\ rawData = <<>>
    /\ error = EmptyError

----------------------------------------------------------------------------
(* Properties of the App running processData, under AppSpec *)

\* the parse of the uploaded file has failed
ParseFailed == pc = "error" /\ error = ParseError

\* the App shows the parser's error and nothing else
ShowsParseError ==
    /\ appState = ERROR
    /\ appError = <<ParseError>>
    /\ appReport = <<>>
    /\ appCleanedData = <<>>

\* C19: when parsing fails, processData rejects with the parser's error
\* before any column is processed and leaves no partial result; the App then
\* ends in ERROR with that error's message, its report still null and its
\* cleanedData still empty.
C19_ParseFailureShown ==
    /\ [](~file.ok /\ pc \notin {"idle", "parsing"} =>
            /\ ParseFailed
            /\ headers = <<>> /\ cleanedData = <<>>
            /\ seenValues = <<>> /\ columnAnalyses = <<>>
            /\ cleaningActions = <<>> /\ featureEngineering = <<>>
            /\ report = <<>>
            /\ appState = PROCESSING /\ appReport = <<>> /\ appCleanedData = <<>>)
    /\ [][ParseFailed => ShowsParseError']_vars
    /\ (pc = "parsing" /\ ~file.ok) ~> ShowsParseError

\* the App shows the error of a failed parse
C19_ParseErrorShown == ShowsParseError /\ pc = "idle"

\* one step of an upload: the parse, one column, the return, the outcome
UploadStep ==
    /\ appState = READY_TO_UPLOAD => appState' \in {READY_TO_UPLOAD, PROCESSING}
    /\ appState = PROCESSING => appState' \in {PROCESSING, REPORT_READY, ERROR}
    /\ appState = REPORT_READY => appState' \in {REPORT_READY, READY_TO_UPLOAD}
    /\ appState = ERROR => appState' \in {ERROR, READY_TO_UPLOAD}
    /\ pc = "parsing" => pc' \in {"loop", "error"} /\ appState' = PROCESSING
    /\ pc = "loop" =>
          /\ appState' = PROCESSING
          /\ \/ /\ pc' = "loop"
                /\ idx <= Len(headers) /\ idx' = idx + 1
                /\ Names(columnAnalyses') = Append(Names(columnAnalyses), headers[idx])
             \/ /\ pc' = "done"
                /\ Names(columnAnalyses) = headers /\ columnAnalyses' = columnAnalyses
    /\ pc = "done" => pc' = "idle" /\ appState' = REPORT_READY
    /\ pc = "error" => pc' = "idle" /\ appState' = ERROR

\* C20: every upload runs to an outcome.  Once the App is PROCESSING it
\* reaches REPORT_READY or ERROR, and it leaves PROCESSING for no other state;
\* the two outcomes are left by a reset only; processData handles each header
\* exactly once, in order, and no step retries or abandons a run.
C20_UploadReachesOutcome ==
    /\ (appState = PROCESSING) ~> (appState \in {REPORT_READY, ERROR})
    /\ [][UploadStep]_vars
    /\ [](appState = PROCESSING <=> pc # "idle")

\* an upload of two rows ended with its report shown
C20_ReportShown ==
    /\ appState = REPORT_READY
    /\ Len(appCleanedData) = 2
    /\ Len(appReport[1].columnAnalyses) = 1

----------------------------------------------------------------------------
(* Properties of the returned rows and statistics, under Spec *)

\* C21: after processData returns, no cell of a column inferred NUMERIC,
\* CATEGORICAL or DATE is missing (null, absent or the empty string) in
\* cleanedData.
C21_NoMissingCellLeft ==
    Returned =>
        \A i \in Processed :
            columnAnalyses[i].type \in {NUMERIC, CATEGORICAL, DATE} =>
                \A r \in 1..Len(cleanedData) :
                    ~IsMissing(Get(cleanedData[r], columnAnalyses[i].name))

\* the non-missing values of a column as numbers, sorted ascending
SortedPresent(cells) ==
    SortAsc([k \in 1..Len(NonNull(cells)) |-> ToNumber(NonNull(cells)[k]).n])

\* C22: for every NUMERIC column, the reported min, max and median are the
\* smallest value, the largest value and the median of the column's
\* non-missing values.
C22_StatsOfPresentValues ==
    \A i \in Processed :
        LET an     == columnAnalyses[i]
            sorted == SortedPresent(seenValues[i])
        IN  an.type = NUMERIC =>
                /\ an.stats.min = Num(sorted[1])
                /\ an.stats.max = Num(sorted[Len(sorted)])
                /\ an.stats.median = Median(sorted)

----------------------------------------------------------------------------
(* Properties of the App's four state hooks, under AppSpec *)

\* report is null, cleanedData is empty and error is null
Cleared == appReport = <<>> /\ appCleanedData = <<>> /\ appError = <<>>

\* C23: in every reachable state of the App, REPORT_READY implies a report
\* and no error; ERROR implies an error, no report and no cleaned rows;
\* READY_TO_UPLOAD and PROCESSING imply no report, no cleaned rows and no
\* error.  Uploads start from READY_TO_UPLOAD only, resets from REPORT_READY
\* or ERROR only, and every reset restores the cleared state.
C23_ViewsAndHooksAgree ==
    /\ [](appState = REPORT_READY => appReport # <<>> /\ appError = <<>>)
    /\ [](appState = ERROR =>
            appError # <<>> /\ appReport = <<>> /\ appCleanedData = <<>>)
    /\ [](appState \in {READY_TO_UPLOAD, PROCESSING} => Cleared)
    /\ [][appState # PROCESSING /\ appState' = PROCESSING =>
            appState = READY_TO_UPLOAD]_vars
    /\ [][appState' = READY_TO_UPLOAD /\ appState # READY_TO_UPLOAD =>
            appState \in {REPORT_READY, ERROR} /\ Cleared']_vars

\* an upload of an empty dataset ended in the error view
C23_EmptyErrorShown ==
    /\ appState = ERROR
    /\ appError = <<EmptyError>>
    /\ appReport = <<>>

====
